---- MODULE Spec2Model ----
(***************************************************************************)
(* cppsv: the runtime csv view (include/cppsv_rt.h), the magic header      *)
(* (cppsv_common.h) and the numeric conversions (convert.h).               *)
(*                                                                         *)
(* Characters are their ASCII codes, texts are sequences of codes.         *)
(* A string_view is a half-open span [first, last) of offsets into the     *)
(* view's own buffer `data`.                                               *)
(***************************************************************************)
EXTENDS Integers, Sequences, FiniteSets, TLC

VARIABLES
    \* ---- runtime_cppsv_view ----
    data,        \* the buffer: std::basic_string<CharT> data
    cells,       \* how the body was written: a grid of fields, or <<>> for free text
    terminated,  \* whether the last record of a written grid ends in a newline
    pc,          \* position of the program
    x, y,        \* calc_fields' x and y
    first,       \* calc_fields' iterator `first`, as an offset into data
    field_first, \* calc_fields' iterator `field_first`
    in_quotes,   \* calc_fields' quote flag
    index_x, index_y,
    out,         \* calc_fields' vector of vectors, then the member `fields`
    store,       \* the cell the latest field store was aimed at, <<>> before any
    ret,         \* what the latest get_field call produced
    \* ---- convert.h ----
    text,        \* the character range [first, last) handed to a conversion
    radix,       \* to_integer's radix argument
    result,      \* what the conversion returned
    \* ---- the lifetime of view objects ----
    views,       \* each object: "dead", or its members data (a buffer) and fields
    buffers      \* every buffer allocated so far: its characters, and whether it is live

view_vars == <<data, cells, terminated, pc, x, y, first, field_first, in_quotes,
               index_x, index_y, out, store, ret>>
num_vars == <<text, radix, result>>
life_vars == <<views, buffers>>
vars == <<data, cells, terminated, pc, x, y, first, field_first, in_quotes,
          index_x, index_y, out, store, ret, text, radix, result, views, buffers>>

\* no view object exists
IdleLife == /\ views = <<>>
            /\ buffers = <<>>

(***************************************************************************)
(* Bounds of the model                                                     *)
(***************************************************************************)
\* a written grid has at most this many cells (rows * columns)
MaxCells == 4
\* a free-text body has at most this many characters
MaxBody == 5
\* a text handed to a conversion has at most this many characters
MaxLen == 4

(***************************************************************************)
(* Characters the source names                                             *)
(***************************************************************************)
NUL == 0
NL == 10
SP == 32
QUOTE == 34
COMMA == 44
MINUS == 45
DOT == 46
ZERO == 48

\* every sequence over S of length at most n
SeqsUpTo(S, n) == UNION {[1..k -> S] : k \in 0..n}

(***************************************************************************)
(* cppsv_common.h                                                          *)
(***************************************************************************)
\* '"', 'c', 'p', 'p', 's', 'v', '"', '\n'
cppsv_header_value == <<34, 99, 112, 112, 115, 118, 34, 10>>

cppsv_header_size == Len(cppsv_header_value)

has_header(iterable) ==
    /\ Len(iterable) >= cppsv_header_size
    /\ SubSeq(iterable, 1, cppsv_header_size) = cppsv_header_value

(***************************************************************************)
(* runtime_cppsv_view: the private helpers                                 *)
(***************************************************************************)
\* a default-constructed string_view
NullView == [first |-> 0, last |-> 0]

\* the characters a span of buffer d covers
ViewText(d, v) == SubSeq(d, v.first + 1, v.last)

\* in_quotes ^= chr == '"'
Toggle(q, chr) == IF chr = QUOTE THEN ~q ELSE q

RECURSIVE calc_x_loop(_, _, _, _)
\* the loop of calc_x from the i-th character of d on
calc_x_loop(d, i, q, n) ==
    IF i > Len(d) THEN n
    ELSE LET chr == d[i]
             q2 == Toggle(q, chr)
         IN  IF q2 THEN calc_x_loop(d, i + 1, q2, n)
             ELSE LET n1 == IF chr = COMMA THEN n + 1 ELSE n
                  IN  IF chr = NL THEN n1 ELSE calc_x_loop(d, i + 1, q2, n1)

\* column count (defined by the first row): at least 1
calc_x(d) == calc_x_loop(d, 1, FALSE, 1)

RECURSIVE calc_y_loop(_, _, _, _, _, _)
\* the loop of calc_y from the i-th character of d on
calc_y_loop(d, cx, i, q, n, index) ==
    IF i > Len(d) THEN n
    ELSE LET chr == d[i]
             q2 == Toggle(q, chr)
             counted == ~q2 /\ chr = COMMA /\ index < cx
             n1 == IF counted THEN n + 1 ELSE n
             index1 == IF counted THEN index + 1 ELSE index
         IN  IF ~q2 /\ chr = NL
             THEN calc_y_loop(d, cx, i + 1, q2, n1 + 1, 0)
             ELSE calc_y_loop(d, cx, i + 1, q2, n1, index1)

\* row count
calc_y(d, cx) == calc_y_loop(d, cx, 1, FALSE, 1, 0) \div cx

\* strip_field asking for more than two characters before it drops the quotes
strip_field_long(d, v) ==
    LET v1 == IF v.last > v.first /\ d[v.first + 1] = COMMA
              THEN [first |-> v.first + 1, last |-> v.last]
              ELSE v
    IN  IF v1.last - v1.first > 2 /\ d[v1.first + 1] = QUOTE /\ d[v1.last] = QUOTE
        THEN [first |-> v1.first + 1, last |-> v1.last - 1]
        ELSE v1

\* strip wrapping quotes, comma, from the span v of buffer d
strip_field(d, v) ==
    LET v1 == IF v.last > v.first /\ d[v.first + 1] = COMMA
              THEN [first |-> v.first + 1, last |-> v.last]
              ELSE v
    IN  IF v1.last - v1.first > 1 /\ d[v1.first + 1] = QUOTE /\ d[v1.last] = QUOTE
        THEN [first |-> v1.first + 1, last |-> v1.last - 1]
        ELSE v1

\* data_view after remove_prefix(cppsv_header<CharT>::size)
data_view(d) == SubSeq(d, cppsv_header_size + 1, Len(d))

\* std::vector<std::vector<view_type>>(y, std::vector<view_type>(x))
EmptyGrid(cy, cx) == [r \in 1..cy |-> [c \in 1..cx |-> NullView]]

\* out[index_y][index_x] = v is defined only inside the grid; outside it the
\* write is undefined behaviour: the build may stop there, or the write may land
\* outside the grid and the scan may go on
StoreOutcomes(g, iy) == IF iy < Len(g) THEN {"stored"} ELSE {"crash", "stray"}

(***************************************************************************)
(* runtime_cppsv_view: the public accessors                                *)
(***************************************************************************)
\* rows(): fields.size()
rows(g) == Len(g)

\* columns(): fields[0].size()
columns(g) == Len(g[1])

RECURSIVE name_index_clamped(_, _, _, _)
\* name_index keeping the index of a missing name inside the row
name_index_clamped(d, header, column_name, i) ==
    IF i > Len(header) THEN Len(header) - 1
    ELSE IF ViewText(d, header[i]) = column_name THEN i - 1
    ELSE name_index_clamped(d, header, column_name, i + 1)

RECURSIVE name_index(_, _, _, _)
\* get_field(row, column_name)'s scan of fields[0] from its i-th field on
name_index(d, header, column_name, i) ==
    IF i > Len(header) THEN i - 1
    ELSE IF ViewText(d, header[i]) = column_name THEN i - 1
    ELSE name_index(d, header, column_name, i + 1)

OutOfRange == [kind |-> "out_of_range"]

\* std::vector::at
at(v, i) == IF i < Len(v) THEN [kind |-> "value", value |-> v[i + 1]] ELSE OutOfRange

\* get_field(const std::vector<view_type>& row, const auto& column_name)
get_field_row(d, g, row, column_name) ==
    at(row, name_index(d, g[1], column_name, 1))

\* get_field(const auto& column_name, size_t row_index), through get_row
get_field(d, g, column_name, row_index) ==
    LET row == at(g, row_index)
    IN  IF row = OutOfRange THEN OutOfRange
        ELSE get_field_row(d, g, row.value, column_name)

(***************************************************************************)
(* The texts handed to the constructor                                     *)
(***************************************************************************)
\* the characters of a free-text body: 'a', ',', '\n', '"'
BodyAlphabet == {97, COMMA, NL, QUOTE}

\* a field as RFC 4180 writes it: its text, bare or wrapped in quotes; a bare
\* field holds no comma, newline or quote, a wrapped one holds quotes doubled
FieldForms ==
    {[inner |-> t, quoted |-> FALSE] : t \in {<<>>, <<97>>}}
    \cup {[inner |-> t, quoted |-> TRUE] :
            t \in {<<>>, <<COMMA, NL>>, <<97, QUOTE, QUOTE>>}}

\* the characters of one written field
Raw(f) == IF f.quoted THEN <<QUOTE>> \o f.inner \o <<QUOTE>> ELSE f.inner

RECURSIVE RecordText(_, _)
\* the fields of a record from the c-th on, separated by commas
RecordText(rec, c) ==
    IF c = Len(rec) THEN Raw(rec[c])
    ELSE Raw(rec[c]) \o <<COMMA>> \o RecordText(rec, c + 1)

RECURSIVE GridText(_, _, _)
\* the records of a grid from the r-th on, each ended by a newline, the last
\* one only when term
GridText(g, r, term) ==
    IF r = Len(g) THEN RecordText(g[r], 1) \o (IF term THEN <<NL>> ELSE <<>>)
    ELSE RecordText(g[r], 1) \o <<NL>> \o GridText(g, r + 1, term)

\* the row and column counts of the written grids
Shapes == {s \in (1..MaxCells) \X (1..MaxCells) : s[1] * s[2] <= MaxCells}

IdleNum == /\ text = <<>>
           /\ radix = 10
           /\ result = [kind |-> "none"]

\* before calc_fields has run
Fresh == /\ pc = "init"
         /\ x = 0 /\ y = 0
         /\ first = 0 /\ field_first = 0
         /\ in_quotes = FALSE
         /\ index_x = 0 /\ index_y = 0
         /\ out = <<>>
         /\ store = <<>>
         /\ ret = [kind |-> "none"]

\* a rectangular RFC 4180 body after the magic
InitWritten ==
    \E s \in Shapes : \E g \in [1..s[1] -> [1..s[2] -> FieldForms]] :
        \E term \in BOOLEAN :
            /\ cells = g
            /\ terminated = term
            /\ data = cppsv_header_value \o GridText(g, 1, term)

\* any body, with the magic or without it
InitFree ==
    \E body \in SeqsUpTo(BodyAlphabet, MaxBody) : \E magic \in BOOLEAN :
        /\ cells = <<>>
        /\ terminated = FALSE
        /\ data = (IF magic THEN cppsv_header_value ELSE <<>>) \o body

InitView == (InitWritten \/ InitFree) /\ Fresh /\ IdleNum /\ IdleLife

(***************************************************************************)
(* runtime_cppsv_view: construction                                        *)
(***************************************************************************)
\* the constructor up to calc_fields' loop
Construct ==
    /\ pc = "init"
    /\ IF ~has_header(data)
       THEN /\ pc' = "built"
            /\ UNCHANGED <<x, y, first, field_first, out>>
       ELSE LET cx == calc_x(data_view(data))
                cy == calc_y(data_view(data), cx)
            IN  /\ x' = cx
                /\ y' = cy
                /\ out' = EmptyGrid(cy, cx)
                /\ first' = cppsv_header_size
                /\ field_first' = cppsv_header_size
                /\ pc' = "scan"
    /\ UNCHANGED <<data, cells, terminated, in_quotes, index_x, index_y, store, ret>>
    /\ UNCHANGED <<num_vars, life_vars>>

\* one round of calc_fields' loop
BuildStep ==
    /\ pc = "scan"
    /\ first < Len(data)
    /\ LET chr == data[first + 1]
           q2 == Toggle(in_quotes, chr)
           stores == ~q2 /\ (chr = COMMA \/ chr = NL) /\ index_x < x
           ix1 == IF stores THEN index_x + 1 ELSE index_x
       IN  /\ in_quotes' = q2
           /\ IF stores
              THEN \E outcome \in StoreOutcomes(out, index_y) :
                     /\ store' = <<index_y, index_x>>
                     /\ out' = IF outcome = "stored"
                               THEN [out EXCEPT ![index_y + 1][index_x + 1] =
                                       strip_field(data, [first |-> field_first,
                                                          last |-> first])]
                               ELSE out
                     /\ pc' = IF outcome = "crash" THEN "crashed" ELSE "scan"
                     /\ field_first' = first + 1
              ELSE UNCHANGED <<store, out, pc, field_first>>
           /\ IF ~q2 /\ chr = NL
              THEN index_x' = 0 /\ index_y' = index_y + 1
              ELSE index_x' = ix1 /\ index_y' = index_y
    /\ first' = first + 1
    /\ UNCHANGED <<data, cells, terminated, x, y, ret>>
    /\ UNCHANGED <<num_vars, life_vars>>

\* calc_fields returns and the member `fields` holds the grid
BuildReturn ==
    /\ pc = "scan"
    /\ first = Len(data)
    /\ pc' = "built"
    /\ UNCHANGED <<data, cells, terminated, x, y, first, field_first, in_quotes,
                   index_x, index_y, out, store, ret>>
    /\ UNCHANGED <<num_vars, life_vars>>

\* the column names asked for: 'a', the empty name, ',', 'b'
Names == {<<97>>, <<>>, <<COMMA>>, <<98>>}

\* a call of get_field(column_name, row_index); the functions are noexcept, so
\* an out-of-range index ends the program
GetField ==
    /\ pc = "built"
    /\ \E column_name \in Names : \E row_index \in 0..rows(out) :
         LET r == get_field(data, out, column_name, row_index)
         IN  /\ ret' = [kind |-> r.kind, name |-> column_name, row |-> row_index,
                        value |-> IF r.kind = "value" THEN r.value ELSE NullView]
             /\ pc' = IF r.kind = "value" THEN "built" ELSE "terminated"
    /\ UNCHANGED <<data, cells, terminated, x, y, first, field_first, in_quotes,
                   index_x, index_y, out, store>>
    /\ UNCHANGED <<num_vars, life_vars>>

NextView == Construct \/ BuildStep \/ BuildReturn \/ GetField

SpecView == InitView /\ [][NextView]_vars

(***************************************************************************)
(* convert.h                                                               *)
(***************************************************************************)
\* digit_lut_base16: the digit of each character from '0' to 'z'
digit_lut_base16 ==
    << 0, 1, 2, 3, 4, 5, 6, 7, 8, 9,-1,-1,-1,-1,-1,-1,
      -1,10,11,12,13,14,15,16,17,18,19,20,21,22,23,24,
      25,26,27,28,29,30,31,32,33,34,35,-1,-1,-1,-1,-1,
      -1,10,11,12,13,14,15,16,17,18,19,20,21,22,23,24,
      25,26,27,28,29,30,31,32,33,34,35 >>

\* the value of a character as a digit of the base, -1 when it is none
chrdigit(chr, base) ==
    IF chr < 48 \/ chr > 122 THEN -1
    ELSE LET digit == digit_lut_base16[chr - 48 + 1]
         IN  IF digit < base THEN digit ELSE -1

\* an ASCII letter in lower case, -1 for any other character
chrlower(chr) ==
    IF chr >= 65 /\ chr <= 90 THEN chr + 32
    ELSE IF chr >= 97 /\ chr <= 122 THEN chr
    ELSE -1

Nullopt == [kind |-> "nullopt"]

IntValue(n) == [kind |-> "value", value |-> n]

\* a trim of one leading space and one trailing space or NUL
Trim_once(s) ==
    LET a == IF s # <<>> /\ Head(s) = SP THEN Tail(s) ELSE s
    IN  IF a # <<>> /\ (a[Len(a)] = SP \/ a[Len(a)] = NUL)
        THEN SubSeq(a, 1, Len(a) - 1)
        ELSE a

RECURSIVE Trim(_)
\* to_integer's trim loop; the empty range stands for its return of nullopt
Trim(s) ==
    IF s = <<>> THEN <<>>
    ELSE IF Head(s) = SP THEN Trim(Tail(s))
    ELSE IF s[Len(s)] = SP \/ s[Len(s)] = NUL THEN Trim(SubSeq(s, 1, Len(s) - 1))
    ELSE s

\* prefix_base comparing the character itself, not its lower case
prefix_base_cased(chr, base) ==
    CASE chr = 120 -> 16
      [] chr = 111 -> 8
      [] chr = 98 -> 2
      [] OTHER -> IF chrdigit(chr, 10) < 0 THEN -1 ELSE base

\* the working base after the character that follows a leading '0'
prefix_base(chr, base) ==
    CASE chrlower(chr) = 120 -> 16
      [] chrlower(chr) = 111 -> 8
      [] chrlower(chr) = 98 -> 2
      [] OTHER -> IF chrdigit(chr, 10) < 0 THEN -1 ELSE base

RECURSIVE accumulate(_, _, _, _)
\* to_integer's digit loop from the i-th character of s on
accumulate(s, i, base, acc) ==
    IF i > Len(s) THEN IntValue(acc)
    ELSE LET digit == chrdigit(s[i], base)
         IN  IF digit < 0 THEN Nullopt
             ELSE accumulate(s, i + 1, base, acc * base + digit)

\* to_integer after the trim and the sign
to_integer_digits(u, rdx) ==
    IF Head(u) = ZERO
    THEN IF Len(u) = 1 THEN IntValue(0)
         ELSE LET base == prefix_base(u[2], rdx)
              IN  IF base < 0 THEN Nullopt ELSE accumulate(u, 3, base, 0)
    ELSE accumulate(u, 1, rdx, 0)

\* -result for a value
Negated(r) == IF r.kind = "value" THEN IntValue(-r.value) ELSE r

to_integer(s, rdx) ==
    LET t == Trim(s)
    IN  IF t = <<>> THEN Nullopt
        ELSE LET sign == Head(t) = MINUS
                 u == IF sign THEN Tail(t) ELSE t
             IN  IF u = <<>> THEN Nullopt
                 ELSE IF sign THEN Negated(to_integer_digits(u, rdx))
                 ELSE to_integer_digits(u, rdx)

\* fp_constants<CharT>
fp_infinity == <<105, 110, 102, 105, 110, 105, 116, 121>>
fp_inf == <<105, 110, 102>>
fp_nan == <<110, 97, 110>>

(***************************************************************************)
(* A floating point number is the decimal m * 10^e, kept with no trailing  *)
(* zero in m: the arithmetic of to_floating_point is followed exactly, the *)
(* rounding of the machine's format is left out.                           *)
(***************************************************************************)
RECURSIVE Pow10(_)
Pow10(n) == IF n = 0 THEN 1 ELSE 10 * Pow10(n - 1)

RECURSIVE Norm(_, _)
Norm(m, e) ==
    IF m = 0 THEN [kind |-> "fp", m |-> 0, e |-> 0]
    ELSE IF m % 10 = 0 THEN Norm(m \div 10, e + 1)
    ELSE [kind |-> "fp", m |-> m, e |-> e]

FpZero == Norm(0, 0)
FpInf(neg) == [kind |-> "inf", neg |-> neg]
FpNan == [kind |-> "nan"]

\* a + b
FpAdd(a, b) ==
    LET e == IF a.e < b.e THEN a.e ELSE b.e
    IN  Norm(a.m * Pow10(a.e - e) + b.m * Pow10(b.e - e), e)

\* a * 10^n, n of either sign: n multiplications or divisions by 10.0
FpScale(a, n) == Norm(a.m, a.e + n)

\* -result
FpNegated(r) ==
    CASE r.kind = "fp" -> Norm(-r.m, r.e)
      [] r.kind = "inf" -> FpInf(~r.neg)
      [] OTHER -> r

\* std::equal without the constant's end: the range only has to start the constant
fp_equal_prefix(u, constant) ==
    /\ Len(u) <= Len(constant)
    /\ \A i \in 1..Len(u) : chrlower(u[i]) = constant[i]

\* std::equal(first, last, begin(constant), end(constant), pred)
fp_equal(u, constant) ==
    /\ Len(u) = Len(constant)
    /\ \A i \in 1..Len(u) : chrlower(u[i]) = constant[i]

\* check_fp_constants with default_result Fp{}
check_fp_constants(u) ==
    IF fp_equal(u, fp_infinity) \/ fp_equal(u, fp_inf) THEN FpInf(FALSE)
    ELSE IF fp_equal(u, fp_nan) THEN FpNan
    ELSE FpZero

RECURSIVE FpTrim(_)
\* to_floating_point's trim loop; the empty range stands for its return of nullopt
FpTrim(s) ==
    IF s = <<>> THEN <<>>
    ELSE IF Head(s) = SP THEN FpTrim(Tail(s))
    ELSE IF s[Len(s)] = SP \/ s[Len(s)] = NUL THEN FpTrim(SubSeq(s, 1, Len(s) - 1))
    ELSE s

\* bool sign = *first == '-', of a trimmed range
fp_sign(t) == t # <<>> /\ Head(t) = MINUS

\* the range after the sign
fp_unsigned(t) == IF fp_sign(t) THEN Tail(t) ELSE t

\* could be a FP constant
fp_is_constant(u) == chrlower(Head(u)) = 105 \/ chrlower(Head(u)) = 110

\* the constants' branch of to_floating_point
fp_constant_result(u, sign) ==
    LET r == check_fp_constants(u)
    IN  IF r = FpZero THEN Nullopt
        ELSE IF sign THEN FpNegated(r) ELSE r

RECURSIVE find_exp(_, _)
\* while (++first_exp != last) if (chrlower(*first_exp) == 'e') break;
\* positions count from 1, last is Len(u) + 1
find_exp(u, j) ==
    IF j > Len(u) THEN Len(u) + 1
    ELSE IF chrlower(u[j]) = 101 THEN j
    ELSE find_exp(u, j + 1)

RECURSIVE whole_part(_, _, _, _)
\* the whole part's loop: the result and where `first` stands after it
whole_part(u, i, last_decimal, acc) ==
    IF i = last_decimal THEN [kind |-> "fp", result |-> acc, first |-> i]
    ELSE IF u[i] = DOT THEN [kind |-> "fp", result |-> acc, first |-> i + 1]
    ELSE LET digit == chrdigit(u[i], 10)
         IN  IF digit < 0 THEN Nullopt
             ELSE whole_part(u, i + 1, last_decimal,
                             FpAdd(FpScale(acc, 1), Norm(digit, 0)))

RECURSIVE fractional_part(_, _, _, _)
\* the fractional part's loop, from the least significant digit backward
fractional_part(u, i, last_decimal, acc) ==
    IF i = last_decimal THEN acc
    ELSE LET digit == chrdigit(u[last_decimal - 1], 10)
         IN  IF digit < 0 THEN Nullopt
             ELSE fractional_part(u, i, last_decimal - 1,
                                  FpAdd(FpScale(acc, -1), Norm(digit, 0)))

\* the digits' branch of to_floating_point
fp_digits_result(u, sign) ==
    LET first_exp == find_exp(u, 2)
        whole == whole_part(u, 1, first_exp, FpZero)
    IN  IF whole = Nullopt THEN Nullopt
        ELSE LET decimals == fractional_part(u, whole.first, first_exp, FpZero)
             IN  IF decimals = Nullopt THEN Nullopt
                 ELSE LET mantissa == FpAdd(whole.result, FpScale(decimals, -1))
                          exponent_opt == to_integer(SubSeq(u, first_exp + 1, Len(u)), 10)
                          r == IF first_exp = Len(u) + 1 THEN mantissa
                               ELSE IF exponent_opt = Nullopt THEN Nullopt
                               ELSE FpScale(mantissa, exponent_opt.value)
                      IN  IF r = Nullopt THEN Nullopt
                          ELSE IF sign THEN FpNegated(r) ELSE r

to_floating_point(s) ==
    LET t == FpTrim(s)
        u == fp_unsigned(t)
    IN  IF t = <<>> \/ u = <<>> THEN Nullopt
        ELSE IF fp_is_constant(u) THEN fp_constant_result(u, fp_sign(t))
        ELSE fp_digits_result(u, fp_sign(t))

(***************************************************************************)
(* The texts handed to the conversions                                     *)
(***************************************************************************)
\* '\0', ' ', '-', '0', '1', '7', 'X', 'b', 'o'
IntAlphabet == {NUL, SP, MINUS, ZERO, 49, 55, 88, 98, 111}

\* ' ', '-', '.', '1', 'I', 'e', 'f', 'i', 'n'
FpAlphabet == {SP, MINUS, DOT, 49, 73, 101, 102, 105, 110}

\* the constants' names in full, cut short, drawn out and in upper case, and
\* "7", each with and without padding and '-'
NamedTexts ==
    LET bare == {fp_infinity, fp_nan, <<55>>,
                 SubSeq(fp_infinity, 1, 7), fp_infinity \o <<121>>,
                 <<73>> \o Tail(fp_infinity), <<73, 78, 70>>,
                 <<78, 97, 78>>, fp_nan \o <<111>>, SubSeq(fp_nan, 1, 2)}
    IN  {lead \o sign \o b \o trail :
            lead \in {<<>>, <<SP, SP>>}, sign \in {<<>>, <<MINUS>>},
            b \in bare, trail \in {<<>>, <<SP, NUL>>}}

Texts == SeqsUpTo(IntAlphabet, MaxLen) \cup SeqsUpTo(FpAlphabet, MaxLen)
         \cup NamedTexts

\* the radix arguments
Radixes == {2, 10, 16}

IdleView == /\ data = <<>>
            /\ cells = <<>>
            /\ terminated = FALSE
            /\ x = 0 /\ y = 0
            /\ first = 0 /\ field_first = 0
            /\ in_quotes = FALSE
            /\ index_x = 0 /\ index_y = 0
            /\ out = <<>>
            /\ store = <<>>
            /\ ret = [kind |-> "none"]

InitNum == /\ text \in Texts
           /\ radix = 10
           /\ result = [kind |-> "none"]
           /\ pc = "start"
           /\ IdleView
           /\ IdleLife

\* a call of to_integer on the text
ToInteger ==
    /\ pc = "start"
    /\ \E rdx \in Radixes :
         /\ radix' = rdx
         /\ result' = to_integer(text, rdx)
    /\ pc' = "int_done"
    /\ UNCHANGED <<text, data, cells, terminated, x, y, first, field_first,
                   in_quotes, index_x, index_y, out, store, ret>>
    /\ UNCHANGED life_vars

\* to_floating_point up to its choice between the constants and the digits
ToFloatingPoint ==
    /\ pc = "start"
    /\ LET t == FpTrim(text)
           u == fp_unsigned(t)
       IN  IF t = <<>> \/ u = <<>>
           THEN result' = Nullopt /\ pc' = "fp_done"
           ELSE /\ result' = result
                /\ pc' = IF fp_is_constant(u) THEN "fp_constants" ELSE "fp_digits"
    /\ UNCHANGED <<text, radix, data, cells, terminated, x, y, first, field_first,
                   in_quotes, index_x, index_y, out, store, ret>>
    /\ UNCHANGED life_vars

\* the match against "infinity", "inf" and "nan"
FpConstants ==
    /\ pc = "fp_constants"
    /\ result' = fp_constant_result(fp_unsigned(FpTrim(text)), fp_sign(FpTrim(text)))
    /\ pc' = "fp_done"
    /\ UNCHANGED <<text, radix, data, cells, terminated, x, y, first, field_first,
                   in_quotes, index_x, index_y, out, store, ret>>
    /\ UNCHANGED life_vars

\* the scan of the whole part, the fraction and the exponent
FpDigits ==
    /\ pc = "fp_digits"
    /\ result' = fp_digits_result(fp_unsigned(FpTrim(text)), fp_sign(FpTrim(text)))
    /\ pc' = "fp_done"
    /\ UNCHANGED <<text, radix, data, cells, terminated, x, y, first, field_first,
                   in_quotes, index_x, index_y, out, store, ret>>
    /\ UNCHANGED life_vars

NextNum == ToInteger \/ ToFloatingPoint \/ FpConstants \/ FpDigits

SpecNum == InitNum /\ [][NextNum]_vars

(***************************************************************************)
(* Claims about the view                                                   *)
(***************************************************************************)
\* the view was built from a written grid
BuiltFromGrid == pc = "built" /\ cells # <<>>

\* the number of commas of t with an even number of quotes before them
OutsideCommas(t) ==
    Cardinality({i \in 1..Len(t) :
        /\ t[i] = COMMA
        /\ Cardinality({j \in 1..(i - 1) : t[j] = QUOTE}) % 2 = 0})

\* every cell of the written grid is stored with the text of its field
CellsStored ==
    \A r \in 1..Len(cells) : \A c \in 1..Len(cells[1]) :
        /\ r <= Len(out)
        /\ c <= Len(out[r])
        /\ ViewText(data, out[r][c]) = cells[r][c].inner

\* C1: for a rectangular body in which every record ends in a newline,
\* columns() is the number of commas outside quotes in the first record plus 1
\* and rows() is the number of records, for every column count from 1 on.
C1_CountsMatchRecords ==
    (BuiltFromGrid /\ terminated) =>
        /\ columns(out) = OutsideCommas(RecordText(cells[1], 1)) + 1
        /\ rows(out) = Len(cells)

\* C2: for every text that starts with the magic, ragged bodies included, the
\* build never fails hard and every field store is aimed at a cell with
\* row_index < rows and field_index < columns, the counts calc_y and calc_x
\* gave for that text.
C2_StoresInsideGrid ==
    /\ pc # "crashed"
    /\ store # <<>> => (store[1] < y /\ store[2] < x)

\* C3: for a rectangular body in which every record ends in a newline, cell
\* (r, c) holds exactly the text of the c-th field of the r-th record: commas,
\* newlines and doubled quotes inside a quoted field do not end it, the two
\* wrapping quotes are dropped and the inner text is kept verbatim.
C3_CellsHoldFieldText ==
    (BuiltFromGrid /\ terminated) => CellsStored

\* a built 2 x 2 grid whose first record ends in a quoted field holding a comma
\* and a newline and whose second record starts with one holding a doubled quote
C3_Witness ==
    /\ BuiltFromGrid /\ terminated
    /\ Len(cells) = 2 /\ Len(cells[1]) = 2
    /\ cells[1][2] = [inner |-> <<COMMA, NL>>, quoted |-> TRUE]
    /\ cells[2][1] = [inner |-> <<97, QUOTE, QUOTE>>, quoted |-> TRUE]
    /\ ViewText(data, out[1][2]) = <<COMMA, NL>>
    /\ ViewText(data, out[2][1]) = <<97, QUOTE, QUOTE>>

\* C4: for a rectangular body whose last record has no newline after it,
\* rows() counts that record and every field of it, the last one included, is
\* stored as if the newline were there.
C4_UnterminatedRecordStored ==
    (BuiltFromGrid /\ ~terminated) =>
        /\ rows(out) = Len(cells)
        /\ CellsStored

\* the indices of the header fields whose text is the name
HeaderHits(name) ==
    {k \in 1..Len(out[1]) : ViewText(data, out[1][k]) = name}

\* the least member of a non-empty set of numbers
Least(S) == CHOOSE k \in S : \A j \in S : k <= j

\* C5: on a non-empty view get_field with a row and a column name returns
\* row[k] for the smallest k whose header text is the name, and ends in an
\* out-of-range failure, returning no field of the row, when no header field
\* is the name.
C5_LookupByName ==
    (ret.kind # "none" /\ ret.row < rows(out)) =>
        IF HeaderHits(ret.name) # {}
        THEN /\ ret.kind = "value"
             /\ ret.value = out[ret.row + 1][Least(HeaderHits(ret.name))]
        ELSE /\ ret.kind = "out_of_range"
             /\ pc = "terminated"

\* a lookup in a later row by a name that two header fields carry, answered
\* with the field under the first of them, which differs from the one under
\* the second
C5_Witness ==
    /\ ret.kind = "value"
    /\ ret.row >= 1
    /\ Cardinality(HeaderHits(ret.name)) >= 2
    /\ \E k \in HeaderHits(ret.name) :
         ViewText(data, out[ret.row + 1][k]) # ViewText(data, ret.value)

(***************************************************************************)
(* Claims about the conversions                                            *)
(***************************************************************************)
\* the number of spaces t starts with
LeadSpaces(t) == Cardinality({i \in 1..Len(t) : \A j \in 1..i : t[j] = SP})

\* t without the spaces it starts with
AfterLead(t) == SubSeq(t, LeadSpaces(t) + 1, Len(t))

\* the number of spaces and NULs that end t, its leading spaces apart
TrailPads(t) ==
    LET r == AfterLead(t)
    IN  Cardinality({i \in 1..Len(r) : \A j \in i..Len(r) : r[j] = SP \/ r[j] = NUL})

\* t without its leading spaces and its trailing spaces and NULs
Core(t) == SubSeq(AfterLead(t), 1, Len(AfterLead(t)) - TrailPads(t))

\* whether t starts with '-'
Minus(t) == t # <<>> /\ t[1] = MINUS

\* t after its '-', if it has one
Unsigned(t) == IF Minus(t) THEN Tail(t) ELSE t

\* the value of a digit character: 0-9, then the letters in either case
RefDigit(c) ==
    IF c \in 48..57 THEN c - 48
    ELSE IF c \in 65..90 THEN c - 55
    ELSE IF c \in 97..122 THEN c - 87
    ELSE -1

\* x, X, o, O, b, B and their bases
PrefixBase(c) ==
    IF c \in {120, 88} THEN 16
    ELSE IF c \in {111, 79} THEN 8
    ELSE IF c \in {98, 66} THEN 2
    ELSE 0

\* whether the unsigned text b starts with 0x, 0o or 0b
Prefixed(b) == Len(b) >= 2 /\ b[1] = ZERO /\ PrefixBase(b[2]) # 0

\* the base the digits of the unsigned text b are read in
WorkingBase(b, rdx) == IF Prefixed(b) THEN PrefixBase(b[2]) ELSE rdx

\* the unsigned text b after its prefix
Digits(b) == IF Prefixed(b) THEN SubSeq(b, 3, Len(b)) ELSE b

AllDigits(ds, base) == \A i \in 1..Len(ds) : RefDigit(ds[i]) \in 0..(base - 1)

RECURSIVE Power(_, _)
Power(b, n) == IF n = 0 THEN 1 ELSE b * Power(b, n - 1)

RECURSIVE Positional(_, _, _)
\* the sum of digit * base^(places after it) over the digits from the i-th on
Positional(ds, base, i) ==
    IF i > Len(ds) THEN 0
    ELSE RefDigit(ds[i]) * Power(base, Len(ds) - i) + Positional(ds, base, i + 1)

\* the number a text stands for: its digits in the working base, signed
RefValue(t, rdx) ==
    LET b == Unsigned(t)
        v == Positional(Digits(b), WorkingBase(b, rdx), 1)
    IN  IF Minus(t) THEN -v ELSE v

\* optional '-', then a prefix or none, then one or more digits of the working
\* base, with no leading '0' that is not a prefix's
WellFormedInt(t, rdx) ==
    LET b == Unsigned(t)
    IN  /\ Len(Digits(b)) >= 1
        /\ AllDigits(Digits(b), WorkingBase(b, rdx))
        /\ Prefixed(b) \/ b[1] # ZERO

\* C6: for text of the form optional '-', a 0x/0o/0b prefix in either case or
\* none, then one or more digits of the working base (no leading '0' without a
\* prefix), to_integer returns sign * the positional value of the digits, the
\* working base being 16/8/2 under a prefix whatever the radix, and the radix
\* otherwise.
C6_WellFormedIntegerValue ==
    (pc = "int_done" /\ WellFormedInt(text, radix)) =>
        result = IntValue(RefValue(text, radix))

\* "-0X7" read with radix 10 gave -7
C6_Witness ==
    /\ pc = "int_done"
    /\ text = <<MINUS, ZERO, 88, 55>>
    /\ radix = 10
    /\ result = IntValue(-7)

\* C7: with radix 10, text that is '0' followed by one or more decimal digits,
\* with or without a '-' before it, gives the decimal value of the whole digit
\* string: "012" gives 12, "05" gives 5.
C7_LeadingZeroDecimal ==
    LET b == Unsigned(text)
        v == Positional(b, 10, 1)
    IN  (/\ pc = "int_done" /\ radix = 10
         /\ Len(b) >= 2 /\ b[1] = ZERO /\ AllDigits(b, 10)) =>
            result = IntValue(IF Minus(text) THEN -v ELSE v)

\* C8: to_integer returns a value only if every character after the sign and
\* the prefix is a digit of the working base.
C8_ValueOnlyFromDigits ==
    LET b == Unsigned(Core(text))
    IN  (pc = "int_done" /\ result.kind = "value") =>
            AllDigits(Digits(b), WorkingBase(b, radix))

\* C9 as amended: both conversions drop every leading space and every
\* trailing space or NUL, so that a padded text gives what its core gives, and
\* a padded well-formed integer its value.
C9_TrimsWholeRuns ==
    /\ pc = "int_done" => result = to_integer(Core(text), radix)
    /\ (pc = "int_done" /\ WellFormedInt(Core(text), radix)) =>
          result = IntValue(RefValue(Core(text), radix))
    /\ pc = "fp_done" => result = to_floating_point(Core(text))

\* "-7" after two spaces and before a space and a NUL gave -7
C9_Witness ==
    /\ pc = "int_done"
    /\ text = <<SP, SP, MINUS, 55, SP, NUL>>
    /\ result = IntValue(-7)

\* C9: the conversions drop at most one leading space and at most one trailing
\* space or NUL: a literal with at most one of each gives its value, one with
\* two or more leading spaces or two or more trailing ones gives no value.
C9_TrimsOneCharacter ==
    LET alone == IF pc = "int_done" THEN to_integer(Core(text), radix)
                 ELSE to_floating_point(Core(text))
    IN  (pc \in {"int_done", "fp_done"} /\ alone # Nullopt) =>
            IF LeadSpaces(text) <= 1 /\ TrailPads(text) <= 1
            THEN result = alone
            ELSE result = Nullopt

\* the letters of t in lower case
LowerText(t) == [i \in 1..Len(t) |-> IF t[i] \in 65..90 THEN t[i] + 32 ELSE t[i]]

\* C10: in to_floating_point, when the text after the trim and the sign starts
\* with i or n in either case, the result is infinity (negative after '-') for
\* exactly "infinity" or "inf" in any case, not-a-number for exactly "nan", no
\* value for anything else, and the digits are never scanned.
C10_ConstantsOrNothing ==
    LET u == Unsigned(Core(text))
        l == LowerText(u)
        expected ==
            IF l = <<105, 110, 102, 105, 110, 105, 116, 121>> \/ l = <<105, 110, 102>>
            THEN [kind |-> "inf", neg |-> Minus(Core(text))]
            ELSE IF l = <<110, 97, 110>> THEN [kind |-> "nan"]
            ELSE [kind |-> "nullopt"]
    IN  (/\ pc \in {"fp_constants", "fp_digits", "fp_done"}
         /\ u # <<>> /\ l[1] \in {105, 110}) =>
            /\ pc # "fp_digits"
            /\ pc = "fp_done" => result = expected

\* "-Infinity" gave negative infinity
C10_Witness ==
    /\ pc = "fp_done"
    /\ text = <<MINUS, 73, 110, 102, 105, 110, 105, 116, 121>>
    /\ result = [kind |-> "inf", neg |-> TRUE]

(***************************************************************************)
(* The lifetime of view objects: the constructor and the implicitly        *)
(* defined copy constructor, move constructor and destructor               *)
(***************************************************************************)
\* at most this many view objects exist at a time
MaxViews == 2
\* at most this many buffers are ever allocated
MaxBuffers == 4

Dead == [kind |-> "dead"]

Live(i) == views[i] # Dead

RECURSIVE calc_fields_loop(_, _, _, _, _, _, _, _)
\* calc_fields' loop from the offset i (`first`) on; a store outside the grid
\* is left out here, the bodies of LifeTexts being rectangular
calc_fields_loop(d, cx, i, ff, q, ix, iy, g) ==
    IF i = Len(d) THEN g
    ELSE LET chr == d[i + 1]
             q2 == Toggle(q, chr)
             stores == ~q2 /\ (chr = COMMA \/ chr = NL) /\ ix < cx
             g1 == IF stores /\ iy < Len(g)
                   THEN [g EXCEPT ![iy + 1][ix + 1] =
                           strip_field(d, [first |-> ff, last |-> i])]
                   ELSE g
             ff1 == IF stores THEN i + 1 ELSE ff
             ix1 == IF stores THEN ix + 1 ELSE ix
         IN  IF ~q2 /\ chr = NL
             THEN calc_fields_loop(d, cx, i + 1, ff1, q2, 0, iy + 1, g1)
             ELSE calc_fields_loop(d, cx, i + 1, ff1, q2, ix1, iy, g1)

\* calc_fields(this->data)
calc_fields(d) ==
    IF ~has_header(d) THEN <<>>
    ELSE LET cx == calc_x(data_view(d))
             cy == calc_y(data_view(d), cx)
         IN  calc_fields_loop(d, cx, cppsv_header_size, cppsv_header_size,
                              FALSE, 0, 0, EmptyGrid(cy, cx))

\* the spans of a grid as pointers into buffer b; a default-constructed
\* string_view points into no buffer (0)
InBuffer(b, g) ==
    [r \in DOMAIN g |-> [c \in DOMAIN g[r] |->
        [buf |-> IF g[r][c] = NullView THEN 0 ELSE b,
         first |-> g[r][c].first, last |-> g[r][c].last]]]

\* the texts views are constructed from: the magic and one record of two
\* fields, and a text without the magic
LifeTexts ==
    {cppsv_header_value \o GridText(g, 1, TRUE) :
        g \in [1..1 -> [1..2 -> {[inner |-> <<97>>, quoted |-> FALSE],
                                 [inner |-> <<COMMA, NL>>, quoted |-> TRUE]}]]}
    \cup {<<97>>}

\* how std::basic_string's move constructor hands over the characters: a heap
\* buffer changes owner, characters kept inside the string object are copied
MoveOutcomes == {"stolen", "inline"}

InitLife == /\ views = [i \in 1..MaxViews |-> Dead]
            /\ buffers = <<>>
            /\ pc = "life"
            /\ IdleView
            /\ IdleNum

\* runtime_cppsv_view(std::basic_string<CharT> data)
LifeConstruct ==
    /\ Len(buffers) < MaxBuffers
    /\ \E i \in 1..MaxViews : \E t \in LifeTexts :
         LET b == Len(buffers) + 1
         IN  /\ ~Live(i)
             /\ buffers' = Append(buffers, [chars |-> t, live |-> TRUE])
             /\ views' = [views EXCEPT ![i] =
                   [kind |-> "view", data |-> b,
                    fields |-> InBuffer(b, calc_fields(t))]]
    /\ UNCHANGED <<view_vars, num_vars>>

\* the implicit copy constructor: data(other.data), fields(other.fields)
LifeCopy ==
    /\ Len(buffers) < MaxBuffers
    /\ \E i \in 1..MaxViews : \E j \in 1..MaxViews :
         LET b == Len(buffers) + 1
         IN  /\ Live(i) /\ ~Live(j)
             /\ buffers' = Append(buffers, [chars |-> buffers[views[i].data].chars,
                                            live |-> TRUE])
             /\ views' = [views EXCEPT ![j] =
                   [kind |-> "view", data |-> b, fields |-> views[i].fields]]
    /\ UNCHANGED <<view_vars, num_vars>>

\* the implicit move constructor: data(std::move(other.data)),
\* fields(std::move(other.fields)); the moved-from object stays alive, its
\* string and its vector empty
LifeMove ==
    /\ Len(buffers) < MaxBuffers
    /\ \E i \in 1..MaxViews : \E j \in 1..MaxViews : \E how \in MoveOutcomes :
         LET b == Len(buffers) + 1
             old == views[i].data
         IN  /\ Live(i) /\ ~Live(j)
             /\ IF how = "stolen"
                THEN /\ buffers' = Append(buffers, [chars |-> <<>>, live |-> TRUE])
                     /\ views' = [views EXCEPT
                           ![j] = [kind |-> "view", data |-> old,
                                   fields |-> views[i].fields],
                           ![i] = [kind |-> "view", data |-> b, fields |-> <<>>]]
                ELSE /\ buffers' = Append([buffers EXCEPT ![old].chars = <<>>],
                                          [chars |-> buffers[old].chars, live |-> TRUE])
                     /\ views' = [views EXCEPT
                           ![j] = [kind |-> "view", data |-> b,
                                   fields |-> views[i].fields],
                           ![i] = [kind |-> "view", data |-> old, fields |-> <<>>]]
    /\ UNCHANGED <<view_vars, num_vars>>

\* the implicit destructor: the object's buffer goes with it
LifeDestroy ==
    /\ \E i \in 1..MaxViews :
         /\ Live(i)
         /\ buffers' = [buffers EXCEPT ![views[i].data].live = FALSE]
         /\ views' = [views EXCEPT ![i] = Dead]
    /\ UNCHANGED <<view_vars, num_vars>>

NextLife == LifeConstruct \/ LifeCopy \/ LifeMove \/ LifeDestroy

SpecLife == InitLife /\ [][NextLife]_vars

(***************************************************************************)
(* Claims about the lifetime of views                                      *)
(***************************************************************************)
\* the fields of object i that point into a buffer
PointingFields(i) ==
    UNION {{views[i].fields[r][c] : c \in DOMAIN views[i].fields[r]} :
              r \in DOMAIN views[i].fields}
    \ {[buf |-> 0, first |-> 0, last |-> 0]}

\* C11: in every state reached by constructing, copying, moving and destroying
\* views, every field in a live view's grid is a span into the buffer that
\* same view owns, so that no live view holds a field into a destroyed buffer
\* or into another view's buffer.
C11_FieldsInOwnBuffer ==
    \A i \in DOMAIN views :
        Live(i) => \A f \in PointingFields(i) :
                      /\ f.buf = views[i].data
                      /\ buffers[f.buf].live

====
